---- MODULE Spec2Model ----
(***************************************************************************)
(* wasm_plugin: the host/guest calling convention.                         *)
(*                                                                         *)
(* One plugin instance is modelled: its guest heap (the part of linear     *)
(* memory handed out by the guest allocator), the instance-wide Garbage    *)
(* Log (WasmPluginInner::garbage, shared with every import stub's Env),    *)
(* the mutex around that log, and the position of the single host thread   *)
(* inside a top-level call.  Guest code is arbitrary: the exported stub    *)
(* may call any registered import, trap, or return any value.              *)
(***************************************************************************)
EXTENDS Integers, Sequences, FiniteSets, TLC

\* ------------------------------------------------------------------ bounds
\* top-level calls in one behaviour
MaxCalls == 2

\* import invocations inside one exported stub
MaxImportCalls == 2

\* allocations the guest heap can hold at once
MaxAllocs == 2

\* arguments in a signature given to one of the macros
MaxArgs == 3

\* ------------------------------------------------------------- addresses
\* NonNull::dangling() of a Vec<u8> that owns no allocation (capacity 0)
Dangling == 1

\* bytes of the longest message (a u16)
MessageSize == 2

\* where a guest allocator with room for n buffers places them
Blocks(n) == {Dangling + 1 + k * MessageSize : k \in 0..(n - 1)}

Addrs == Blocks(MaxAllocs)

\* the heap of the guest that forwards its argument to an import: the
\* argument, the import's argument, the import's result and the export's
\* result are allocated at the same time
ForwardAddrs == Blocks(MaxAllocs + 2)

\* size of the guest's linear memory: the first address past it
MemoryEnd == Dangling + 1 + MaxAllocs * MessageSize

\* ----------------------------------------------------------------- values
Unit == [ty |-> "unit", v |-> 0]

Bool(b) == [ty |-> "bool", v |-> b]

U8(n) == [ty |-> "u8", v |-> n]

U16(n) == [ty |-> "u16", v |-> n]

\* a value whose Serialize implementation reports an error
Opaque == [ty |-> "opaque", v |-> 0]

\* no value yet
NoValue == [ty |-> "none", v |-> 0]

\* values the guest's user code produces
GuestValues == {Unit, Bool(1), U8(2), U16(258)}

\* values the host passes to call_function_with_argument
HostValues == {Unit, U8(1), U8(2), Opaque}

\* return types requested at the host call site
ReturnTypes == {"unit", "bool", "u8", "u16"}

\* ------------------------------------------------------------ FatPointer
FatPointer(p, l) == [ptr |-> p, len |-> l]

\* FatPointer(0): the `0` an import stub returns when nothing was staged
ZeroFatPointer == FatPointer(0, 0)

\* --------------------------------------------------------- serialization
\* bincode::serialize: unit is zero bytes, bool and u8 are one byte, u16 is
\* two bytes, least significant first
Serialize(val) ==
    [ok    |-> val.ty # "opaque",
     bytes |-> IF val.ty \in {"bool", "u8"} THEN <<val.v>>
               ELSE IF val.ty = "u16" THEN <<val.v % 256, val.v \div 256>>
               ELSE <<>>]

\* bincode::deserialize: reads the bytes the type needs (trailing bytes are
\* allowed); fails on a short input and on a bool byte other than 0 or 1
Deserialize(ty, data) ==
    IF ty = "unit" THEN [ok |-> TRUE, val |-> Unit]
    ELSE IF Len(data) = 0 THEN [ok |-> FALSE, val |-> Unit]
    ELSE IF ty = "bool" /\ data[1] \notin {0, 1} THEN [ok |-> FALSE, val |-> Unit]
    ELSE IF ty = "u16"
    THEN IF Len(data) < 2 THEN [ok |-> FALSE, val |-> Unit]
         ELSE [ok |-> TRUE, val |-> U16(data[1] + 256 * data[2])]
    ELSE [ok |-> TRUE, val |-> [ty |-> ty, v |-> data[1]]]

\* ------------------------------------------------------- module interface
\* functions the guest module exports (wasm_plugin_exported__<name>)
Exports == {"hello", "echo"}

\* whether the exported stub takes (ptr, len)
ExportHasArg == [e \in Exports |-> e = "echo"]

\* the declared argument type of the exported function
ExportArgType == [e \in Exports |-> "u8"]

\* names a host caller may ask for
FnNames == Exports \cup {"missing"}

\* the four import shapes registered on the builder, and `token`, a handler
\* whose return value does not serialize
Imports == {"capitalize", "numbers", "log", "ping", "token"}

\* the imports the guest module declares (its extern block)
DeclaredImports == Imports

ImportHasArg == [i \in Imports |-> i \in {"capitalize", "log"}]

\* size_of::<ReturnType>() > 0
ImportHasReturn == [i \in Imports |-> i \in {"capitalize", "numbers", "token"}]

\* as StubShape, but every stub is (ptr, len) -> u64
StubShapeFull(i) == [arg |-> TRUE, ret |-> TRUE]

\* import_function: the wasm function registered for handler i is chosen by
\* F::has_arg() and F::has_return() and moved into the builder's env
StubShape(i) == [arg |-> ImportHasArg[i], ret |-> ImportHasReturn[i]]

\* the ImportableFn method the registered stub calls
Dispatch(i) ==
    IF StubShape(i).arg THEN "call_with_input" ELSE "call_without_input"

\* the method is unimplemented!() for the handler: call_without_input of an
\* Fn(Args) ("Requires argument"), call_with_input of an Fn() ("Must not
\* supply argument")
Unimplemented(i, method) ==
    \/ method = "call_without_input" /\ ImportHasArg[i]
    \/ method = "call_with_input" /\ ~ImportHasArg[i]

\* the handler's Args type
ImportArgType == [i \in Imports |-> IF i = "log" THEN "bool" ELSE "u8"]

\* the handler itself
Handler(i, arg) ==
    CASE i = "capitalize" -> U8((arg.v + 1) % 3)
      [] i = "numbers"    -> U8(1)
      [] i = "token"      -> Opaque
      [] OTHER            -> Unit

\* values guest code passes to an import
ImportArgs == {U8(1), U8(2)}

\* ------------------------------------------------------------------ state
VARIABLES
    pc,          \* position of the host thread
    locked,      \* the Garbage Log mutex is held
    garbage,     \* the Garbage Log
    buffer,      \* MessageBuffer::garbage of call_function_with_argument
    stubBuffer,  \* MessageBuffer::garbage of the running import stub
    pending,     \* the local `garbage` Vec of call_function_raw
    heap,        \* guest allocations
    call,        \* the top-level call in progress
    message,     \* bytes being staged by write_message
    imp,         \* the import invocation in progress
    ptr,         \* locator returned by the exported stub
    result,      \* bytes fetched through ptr
    outcome,     \* what the last top-level call returned
    frees,       \* locators passed to free_message_buffer in this call
    staged,      \* import-stub stagings in this call
    carried,     \* log entries left by earlier calls when this call began
    stale,       \* a read went through a locator that was already released
    doubleFree,  \* free_message_buffer was given a locator already released
    ncalls,      \* top-level calls started
    nimports,    \* import invocations in this call
    guest,       \* locals of the running exported stub
    builder,     \* the WasmPluginBuilder and the module it was given
    gen          \* a run of one of the guest_derive macros

vars == <<pc, locked, garbage, buffer, stubBuffer, pending, heap, call,
          message, imp, ptr, result, outcome, frees, staged, carried, stale,
          doubleFree, ncalls, nimports, guest, builder, gen>>

NoAlloc == [live |-> FALSE, kind |-> "none", bytes |-> <<>>, born |-> 0]

NoCall ==
    [fn_name |-> "", hasInput |-> FALSE, args |-> NoValue,
     input |-> ZeroFatPointer, ret |-> "unit", invoked |-> FALSE]

NoImport ==
    [name |-> "", method |-> "", ptr |-> 0, len |-> 0, r |-> ZeroFatPointer]

NoOutcome == [tag |-> "none", val |-> Unit]

NoResult == <<-1>>

\* the exported stub has not read its argument nor produced its result
NoGuest ==
    [bytes |-> NoResult, ret |-> NoValue, via |-> "", passed |-> NoValue,
     got |-> NoValue]

\* what a module's start function does: the module has none (""), or it
\* calls the import `numbers`
StartFunctions == {"", "numbers"}

\* modules a builder may be given: which of the two exports every Env
\* looks up are present, and the start function
Modules ==
    [allocate_message_buffer : BOOLEAN, memory : BOOLEAN,
     start : StartFunctions]

\* WasmPluginBuilder::from_source: `abort` and `__getrandom` are registered
\* before the caller registers anything
NewBuilder(m) ==
    [module |-> m, env |-> {"abort", "__getrandom"}, updated |-> FALSE]

\* no macro is being expanded
NoGen ==
    [macro |-> "none", inputs |-> <<>>, pos |-> 0, message |-> <<>>,
     call |-> <<>>, argument_types |-> <<>>, tupled |-> FALSE,
     done |-> FALSE]

\* no top-level call has been made
NoCalls ==
    /\ guest = NoGuest
    /\ locked = FALSE
    /\ garbage = <<>>
    /\ buffer = <<>>
    /\ stubBuffer = <<>>
    /\ pending = <<>>
    /\ call = NoCall
    /\ message = <<>>
    /\ imp = NoImport
    /\ ptr = ZeroFatPointer
    /\ result = NoResult
    /\ outcome = NoOutcome
    /\ frees = <<>>
    /\ staged = 0
    /\ carried = 0
    /\ stale = FALSE
    /\ doubleFree = FALSE
    /\ ncalls = 0
    /\ nimports = 0

Init ==
    /\ pc = "builder"
    /\ builder \in {NewBuilder(m) : m \in Modules}
    /\ gen = NoGen
    /\ heap = [a \in Addrs |-> NoAlloc]
    /\ NoCalls

\* ------------------------------------------------------------ guest heap
FreeAddrs(h) == {a \in DOMAIN h : ~h[a].live}

\* guest allocate_message_buffer(len) / guest write_message: the address
\* Vec::with_capacity(len) returns (the guest's allocator is deterministic:
\* the lowest free block); a zero capacity allocates nothing
AllocateMessageBuffer(h, len) ==
    IF len = 0 THEN {Dangling}
    ELSE {a \in FreeAddrs(h) : \A b \in FreeAddrs(h) : a <= b}

\* as Store, but the message is never copied into guest memory
StoreNothing(h, a, kind, bytes, n) == h

\* the copy into data[ptr .. ptr + len]
\* (born: the top-level call during which the allocation was made)
Store(h, a, kind, bytes, n) ==
    IF Len(bytes) = 0 THEN h
    ELSE [h EXCEPT ![a] = [live |-> TRUE, kind |-> kind, bytes |-> bytes,
                           born |-> n]]

\* guest free_message_buffer(ptr, len): drop(Vec::from_raw_parts(ptr, 0, len))
FreeMessageBuffer(h, fp) ==
    IF fp.len = 0 \/ fp.ptr \notin DOMAIN h THEN h
    ELSE [h EXCEPT ![fp.ptr] = NoAlloc]

\* the locator names bytes that are no longer (or never were) allocated
Released(h, fp) == fp.len > 0 /\ (fp.ptr \notin DOMAIN h \/ ~h[fp.ptr].live)

\* the size of the linear memory that holds the heap h
MemorySize(h) ==
    (CHOOSE a \in DOMAIN h : \A b \in DOMAIN h : b <= a) + MessageSize

\* the range check of the slice index data[ptr .. ptr + len]
InBounds(h, fp) == fp.ptr + fp.len <= MemorySize(h)

\* locators past the end of memory that guest code may return
OutOfBounds == {FatPointer(MemoryEnd, 1), FatPointer(MemoryEnd - 1, 2)}

\* as ReadMessage, but the bytes are copied out back to front
ReadMessageReversed(h, fp) ==
    IF fp.len = 0 \/ fp.ptr \notin DOMAIN h THEN <<>>
    ELSE [k \in 1..Len(h[fp.ptr].bytes) |->
             h[fp.ptr].bytes[Len(h[fp.ptr].bytes) + 1 - k]]

\* MessageBuffer::read_message / read_message_from_fat_pointer
ReadMessage(h, fp) ==
    IF fp.len = 0 \/ fp.ptr \notin DOMAIN h THEN <<>>
    ELSE IF fp.len < Len(h[fp.ptr].bytes)
    THEN SubSeq(h[fp.ptr].bytes, 1, fp.len)
    ELSE h[fp.ptr].bytes

\* ------------------------------------------------------- call bookkeeping
Returned(o) ==
    /\ pc' = "idle"
    /\ outcome' = o
    /\ buffer' = <<>>
    /\ stubBuffer' = <<>>
    /\ pending' = <<>>
    /\ message' = <<>>
    /\ imp' = NoImport

Panicked ==
    /\ pc' = "panicked"
    /\ outcome' = [tag |-> "panic", val |-> Unit]

Err(tag) == [tag |-> tag, val |-> Unit]

BeginCall(c) ==
    /\ pc = "idle"
    /\ ncalls < MaxCalls
    /\ ncalls' = ncalls + 1
    /\ call' = c
    /\ ptr' = ZeroFatPointer
    /\ result' = NoResult
    /\ frees' = <<>>
    /\ staged' = 0
    /\ carried' = Len(garbage)
    /\ nimports' = 0
    /\ guest' = NoGuest

\* ------------------------------------------------------ WasmPluginBuilder
\* import_function / import_function_with_context: the stub is inserted in
\* the builder's env under the import's name
ImportFunction(name) ==
    /\ pc = "builder"
    /\ name \notin builder.env
    /\ builder' = [builder EXCEPT !.env = @ \cup {name}]
    /\ UNCHANGED <<pc, locked, garbage, buffer, stubBuffer, pending, heap,
                   call, message, imp, ptr, result, outcome, frees, staged,
                   carried, stale, doubleFree, ncalls, nimports, guest, gen>>

\* as Linked, but an import the env does not provide is left unresolved
LinkedAnyway(b) == TRUE

\* Instance::new: every import the module declares is resolved in the env
Linked(b) == DeclaredImports \subseteq b.env

\* EnvExport::update_exports: both lookups are unwrapped
ExportsFound(m) == m.allocate_message_buffer /\ m.memory

\* Instance::new runs the module's start function, and that function calls
\* a registered import
StartCallsImport(m) == m.start \in Imports

\* what the stub's env.message_buffer() does while memory and allocator are
\* still None (unwrap_unchecked): the debug assertion stops the process, or
\* the write through the unset allocator faults
UnsetEnvOutcomes ==
    {[tag |-> "panic", val |-> Unit], [tag |-> "undefined", val |-> Unit]}

\* finish: Instance::new(..)?, then update_exports on every Env (the Env
\* of __getrandom is always among them), then the plugin is returned
Finish ==
    /\ pc = "builder"
    /\ IF ~Linked(builder)
       THEN /\ pc' = "failed"
            /\ outcome' = Err("InstantiationError")
            /\ UNCHANGED <<imp, builder>>
       ELSE IF StartCallsImport(builder.module)
       THEN /\ imp' = [NoImport EXCEPT !.name = builder.module.start,
                                       !.method = Dispatch(builder.module.start)]
            /\ pc' = "panicked"
            /\ outcome' \in UnsetEnvOutcomes
            /\ UNCHANGED builder
       ELSE IF ~ExportsFound(builder.module)
       THEN Panicked /\ UNCHANGED <<imp, builder>>
       ELSE /\ pc' = "idle"
            /\ outcome' = outcome
            /\ builder' = [builder EXCEPT !.updated = TRUE]
            /\ imp' = imp
    /\ UNCHANGED <<locked, garbage, buffer, stubBuffer, pending, heap, call,
                   message, ptr, result, frees, staged, carried, stale,
                   doubleFree, ncalls, nimports, guest, gen>>

\* ------------------------------------------------------ WasmPlugin (host)
\* WasmPlugin::call_function up to the call of call_function_raw
CallFunction(fn_name, rt) ==
    /\ BeginCall([fn_name |-> fn_name, hasInput |-> FALSE, args |-> NoValue,
                  input |-> ZeroFatPointer, ret |-> rt, invoked |-> FALSE])
    /\ pc' = "lookup"
    /\ outcome' = NoOutcome
    /\ UNCHANGED <<builder, gen, doubleFree, locked, garbage, buffer, stubBuffer, pending, heap,
                   message, imp, stale>>

\* as CallFunctionWithArgument, but the buffer is requested before the
\* result of the encoding is looked at
CallFunctionWithArgumentStaging(fn_name, args, rt) ==
    /\ BeginCall([fn_name |-> fn_name, hasInput |-> TRUE, args |-> args,
                  input |-> ZeroFatPointer, ret |-> rt, invoked |-> FALSE])
    /\ pc' = "arg_alloc"
    /\ outcome' = NoOutcome
    /\ message' = Serialize(args).bytes
    /\ UNCHANGED <<buffer, stubBuffer, pending, imp>>
    /\ UNCHANGED <<builder, gen, doubleFree, locked, garbage, heap, stale>>

\* WasmPlugin::call_function_with_argument: args.serialize()? and the entry
\* into write_message, which calls the guest allocator
CallFunctionWithArgument(fn_name, args, rt) ==
    /\ BeginCall([fn_name |-> fn_name, hasInput |-> TRUE, args |-> args,
                  input |-> ZeroFatPointer, ret |-> rt, invoked |-> FALSE])
    /\ IF Serialize(args).ok
       THEN /\ pc' = "arg_alloc"
            /\ outcome' = NoOutcome
            /\ message' = Serialize(args).bytes
            /\ UNCHANGED <<buffer, stubBuffer, pending, imp>>
       ELSE Returned(Err("SerializationError"))
    /\ UNCHANGED <<builder, gen, doubleFree, locked, garbage, heap, stale>>

\* write_message after the allocator returned: copy, build the locator, push
\* it on the MessageBuffer's own garbage vector
ArgAllocReturn(a) ==
    /\ pc = "arg_alloc"
    /\ a \in AllocateMessageBuffer(heap, Len(message))
    /\ heap' = Store(heap, a, "arg", message, ncalls)
    /\ buffer' = Append(buffer, FatPointer(a, Len(message)))
    /\ call' = [call EXCEPT !.input = FatPointer(a, Len(message))]
    /\ message' = <<>>
    /\ pc' = "lookup"
    /\ UNCHANGED <<guest, builder, gen, doubleFree, locked, garbage, stubBuffer, pending, imp, ptr, result,
                   outcome, frees, staged, carried, stale, ncalls, nimports>>

\* the allocator traps: `.call(store, len).unwrap()` panics
ArgAllocTrap ==
    /\ pc = "arg_alloc"
    /\ Panicked
    /\ UNCHANGED <<guest, builder, gen, doubleFree, locked, garbage, buffer, stubBuffer, pending, heap, call,
                   message, imp, ptr, result, frees, staged, carried, stale,
                   ncalls, nimports>>

\* call_function_raw: the export is not there, unwrap_or_else(panic!)
LookupMissing ==
    /\ pc = "lookup"
    /\ call.fn_name \notin Exports
    /\ Panicked
    /\ UNCHANGED <<guest, builder, gen, doubleFree, locked, garbage, buffer, stubBuffer, pending, heap, call,
                   message, imp, ptr, result, frees, staged, carried, stale,
                   ncalls, nimports>>

\* call_function_raw: f.typed::<..>()? rejects the stub's signature
LookupMismatch ==
    /\ pc = "lookup"
    /\ call.fn_name \in Exports
    /\ ExportHasArg[call.fn_name] # call.hasInput
    /\ Returned(Err("RuntimeError"))
    /\ UNCHANGED <<guest, builder, gen, doubleFree, locked, garbage, heap, call, ptr, result, frees, staged,
                   carried, stale, ncalls, nimports>>

\* call_function_raw: the exported stub is entered
InvokeStub ==
    /\ pc = "lookup"
    /\ call.fn_name \in Exports
    /\ ExportHasArg[call.fn_name] = call.hasInput
    /\ pc' = "stub"
    /\ call' = [call EXCEPT !.invoked = TRUE]
    /\ stale' = (stale \/ Released(heap, call.input))
    /\ guest' = [guest EXCEPT !.bytes = IF call.hasInput
                                         THEN ReadMessage(heap, call.input)
                                         ELSE NoResult]
    /\ UNCHANGED <<builder, gen, doubleFree, locked, garbage, buffer, stubBuffer, pending, heap,
                   message, imp, ptr, result, outcome, frees, staged, carried,
                   ncalls, nimports>>

\* ------------------------------------------------------------ guest code
\* generated export adapter: read_message(..) decoded the argument (the
\* guest's deserialize unwraps, so a failure leaves only the trap)
ArgumentRead ==
    call.hasInput => Deserialize(ExportArgType[call.fn_name], guest.bytes).ok

\* the arguments an exported function can be given
EchoValues ==
    {Deserialize(ExportArgType[e], Serialize(v).bytes).val :
        e \in Exports, v \in {w \in HostValues : Serialize(w).ok}}

\* the values the handlers return
ImportResults ==
    {Handler(i, v) : i \in {j \in Imports : ImportHasReturn[j]},
                     v \in ImportArgs} \ {Opaque}

\* the type the guest declares for the result of an import
ImportRetType == "u8"

\* what the exported function may return: any value of its own, the
\* argument it was given, or what its last import call gave it
Returnable ==
    GuestValues
    \cup (IF call.invoked /\ call.hasInput
          THEN {Deserialize(ExportArgType[call.fn_name], guest.bytes).val}
          ELSE {})
    \cup (IF guest.got # NoValue THEN {guest.got} ELSE {})

\* generated import adapter: write_message(&arg) when the import takes an
\* argument (the Vec is ManuallyDrop), then the extern call
GuestCallImport(i, v, a) ==
    /\ pc = "stub"
    /\ ArgumentRead
    /\ nimports < MaxImportCalls
    /\ nimports' = nimports + 1
    /\ guest' = [guest EXCEPT !.via = i, !.got = NoValue,
                              !.passed = IF ImportHasArg[i] THEN v ELSE NoValue]
    /\ IF ImportHasArg[i]
       THEN /\ a \in AllocateMessageBuffer(heap, Len(Serialize(v).bytes))
            /\ heap' = Store(heap, a, "import_arg", Serialize(v).bytes, ncalls)
            /\ imp' = [name |-> i, method |-> Dispatch(i), ptr |-> a,
                       len |-> Len(Serialize(v).bytes), r |-> ZeroFatPointer]
       ELSE /\ a = Dangling
            /\ v = U8(1)
            /\ heap' = heap
            /\ imp' = [name |-> i, method |-> Dispatch(i), ptr |-> 0,
                       len |-> 0, r |-> ZeroFatPointer]
    /\ pc' = "imp_read"
    /\ UNCHANGED <<builder, gen, doubleFree, locked, garbage, buffer, stubBuffer, pending,
                   call, message, ptr, result, outcome, frees, staged,
                   carried, stale, ncalls>>

\* generated import adapter: read_message through the returned locator
GuestReadImportResult ==
    /\ pc = "imp_ret"
    /\ stale' = (stale \/ Released(heap, imp.r))
    /\ imp' = NoImport
    /\ guest' = [guest EXCEPT
                   !.got = Deserialize(ImportRetType, ReadMessage(heap, imp.r)).val]
    /\ pc' = "stub"
    /\ UNCHANGED <<builder, gen, doubleFree, locked, garbage, buffer, stubBuffer, pending,
                   heap, call, message, ptr, result, outcome, frees, staged,
                   carried, ncalls, nimports>>

\* as GuestTrap, but the error path also empties the Garbage Log
GuestTrapClearingLog ==
    /\ pc = "stub"
    /\ Returned(Err("RuntimeError"))
    /\ garbage' = <<>>
    /\ UNCHANGED <<guest, builder, gen, doubleFree, locked, heap, call, ptr,
                   result, frees, staged, carried, stale, ncalls, nimports>>

\* the exported stub traps: `.call(..)?` in call_function_raw
GuestTrap ==
    /\ pc = "stub"
    /\ Returned(Err("RuntimeError"))
    /\ UNCHANGED <<guest, builder, gen, doubleFree, locked, garbage, heap, call, ptr, result,
                   frees, staged, carried, stale, ncalls, nimports>>

\* generated export adapter: write_message(&result), pack and return
GuestReturn(v, a) ==
    /\ pc = "stub"
    /\ ArgumentRead
    /\ v \in Returnable
    /\ guest' = [guest EXCEPT !.ret = v]
    /\ a \in AllocateMessageBuffer(heap, Len(Serialize(v).bytes))
    /\ heap' = Store(heap, a, "result", Serialize(v).bytes, ncalls)
    /\ ptr' = FatPointer(a, Len(Serialize(v).bytes))
    /\ pc' = "fetch"
    /\ UNCHANGED <<builder, gen, doubleFree, locked, garbage, buffer, stubBuffer, pending,
                   call, message, imp, result, outcome, frees, staged,
                   carried, stale, ncalls, nimports>>

\* an exported stub (not the generated adapter) returns a locator of its
\* own making
GuestReturnRaw(fp) ==
    /\ pc = "stub"
    /\ ArgumentRead
    /\ ptr' = fp
    /\ pc' = "fetch"
    /\ UNCHANGED <<guest, builder, gen, doubleFree, locked, garbage, buffer,
                   stubBuffer, pending, heap, call, message, imp, result,
                   outcome, frees, staged, carried, stale, ncalls, nimports>>

\* ------------------------------------------------- import stub (host side)
\* the stub panics before the handler runs: the method it calls is
\* unimplemented!() for the handler, or Args::deserialize(&message)? fails
\* in call_with_input and the stub unwraps
ImportDecodeFail ==
    /\ pc = "imp_read"
    /\ \/ Unimplemented(imp.name, imp.method)
       \/ /\ ImportHasArg[imp.name]
          /\ ~Deserialize(ImportArgType[imp.name],
                          ReadMessage(heap, FatPointer(imp.ptr, imp.len))).ok
    /\ Panicked
    /\ UNCHANGED <<guest, builder, gen, doubleFree, locked, garbage, buffer, stubBuffer, pending,
                   heap, call, message, imp, ptr, result, frees, staged,
                   carried, stale, ncalls, nimports>>

\* call_with_input / call_without_input: result.serialize()? fails, the
\* stub unwraps
ImportEncodeFail ==
    /\ pc = "imp_read"
    /\ ~Unimplemented(imp.name, imp.method)
    /\ LET fp  == FatPointer(imp.ptr, imp.len)
           arg == Deserialize(ImportArgType[imp.name], ReadMessage(heap, fp))
       IN /\ ImportHasArg[imp.name] => arg.ok
          /\ ImportHasReturn[imp.name]
          /\ ~Serialize(Handler(imp.name, arg.val)).ok
    /\ Panicked
    /\ UNCHANGED <<guest, builder, gen, doubleFree, locked, garbage, buffer,
                   stubBuffer, pending, heap, call, message, imp, ptr, result,
                   frees, staged, carried, stale, ncalls, nimports>>

\* as ImportHandler, but the result is staged whatever its type's size
ImportHandlerAlwaysStages ==
    /\ pc = "imp_read"
    /\ LET fp  == FatPointer(imp.ptr, imp.len)
           arg == Deserialize(ImportArgType[imp.name], ReadMessage(heap, fp))
       IN /\ ImportHasArg[imp.name] => arg.ok
          /\ Serialize(Handler(imp.name, arg.val)).ok
          /\ stale' = (stale \/ (ImportHasArg[imp.name] /\ Released(heap, fp)))
          /\ message' = Serialize(Handler(imp.name, arg.val)).bytes
          /\ pc' = "imp_alloc"
    /\ UNCHANGED <<guest, builder, gen, doubleFree, locked, garbage, buffer,
                   stubBuffer, pending, heap, call, imp, ptr, result, outcome,
                   frees, staged, carried, ncalls, nimports>>

\* call_with_input / call_without_input: read and decode the argument, run
\* the handler, serialize a non-trivial return value and enter write_message
ImportHandler ==
    /\ pc = "imp_read"
    /\ ~Unimplemented(imp.name, imp.method)
    /\ LET fp  == FatPointer(imp.ptr, imp.len)
           arg == Deserialize(ImportArgType[imp.name], ReadMessage(heap, fp))
       IN /\ ImportHasArg[imp.name] => arg.ok
          /\ ImportHasReturn[imp.name] =>
                Serialize(Handler(imp.name, arg.val)).ok
          /\ stale' = (stale \/ (ImportHasArg[imp.name] /\ Released(heap, fp)))
          /\ IF ImportHasReturn[imp.name]
             THEN /\ message' = Serialize(Handler(imp.name, arg.val)).bytes
                  /\ pc' = "imp_alloc"
             ELSE /\ message' = message
                  /\ pc' = "imp_lock"
    /\ UNCHANGED <<guest, builder, gen, doubleFree, locked, garbage, buffer, stubBuffer, pending,
                   heap, call, imp, ptr, result, outcome, frees, staged,
                   carried, ncalls, nimports>>

\* as ImportAllocReturn, but the handler's bytes are never copied into the
\* buffer the allocator returned
ImportAllocReturnNoCopy(a) ==
    /\ pc = "imp_alloc"
    /\ a \in AllocateMessageBuffer(heap, Len(message))
    /\ heap' = Store(heap, a, "import_result", <<0>>, ncalls)
    /\ stubBuffer' = Append(stubBuffer, FatPointer(a, Len(message)))
    /\ imp' = [imp EXCEPT !.r = FatPointer(a, Len(message))]
    /\ staged' = staged + 1
    /\ message' = <<>>
    /\ pc' = "imp_lock"
    /\ UNCHANGED <<guest, builder, gen, doubleFree, locked, garbage, buffer,
                   pending, call, ptr, result, outcome, frees, carried, stale,
                   ncalls, nimports>>

\* write_message in the stub after the allocator returned
ImportAllocReturn(a) ==
    /\ pc = "imp_alloc"
    /\ a \in AllocateMessageBuffer(heap, Len(message))
    /\ heap' = Store(heap, a, "import_result", message, ncalls)
    /\ stubBuffer' = Append(stubBuffer, FatPointer(a, Len(message)))
    /\ imp' = [imp EXCEPT !.r = FatPointer(a, Len(message))]
    /\ staged' = staged + 1
    /\ message' = <<>>
    /\ pc' = "imp_lock"
    /\ UNCHANGED <<guest, builder, gen, doubleFree, locked, garbage, buffer, pending, call, ptr,
                   result, outcome, frees, carried, stale, ncalls, nimports>>

\* write_message in the stub: the allocator traps, unwrap panics
ImportAllocTrap ==
    /\ pc = "imp_alloc"
    /\ Panicked
    /\ UNCHANGED <<guest, builder, gen, doubleFree, locked, garbage, buffer, stubBuffer, pending,
                   heap, call, message, imp, ptr, result, frees, staged,
                   carried, stale, ncalls, nimports>>

\* env.garbage.lock()
ImportLock ==
    /\ pc = "imp_lock"
    /\ ~locked
    /\ locked' = TRUE
    /\ pc' = "imp_extend"
    /\ UNCHANGED <<guest, builder, gen, doubleFree, garbage, buffer, stubBuffer, pending, heap,
                   call, message, imp, ptr, result, outcome, frees, staged,
                   carried, stale, ncalls, nimports>>

\* as Extend, but the log is overwritten instead of appended to
ExtendOverwrite(log, buf) == buf

\* as Extend, but the stub's locators are dropped
ExtendDropped(log, buf) == log

\* Vec::extend(buffer.garbage.drain(..))
Extend(log, buf) == log \o buf

\* .extend(buffer.garbage.drain(..)); the guard is dropped, the stub returns
ImportExtend ==
    /\ pc = "imp_extend"
    /\ garbage' = Extend(garbage, stubBuffer)
    /\ stubBuffer' = <<>>
    /\ locked' = FALSE
    /\ IF StubShape(imp.name).ret
       THEN pc' = "imp_ret" /\ imp' = imp
       ELSE pc' = "stub" /\ imp' = NoImport
    /\ UNCHANGED <<guest, builder, gen, doubleFree, buffer, pending, heap, call, message, ptr,
                   result, outcome, frees, staged, carried, stale, ncalls,
                   nimports>>

\* ------------------------------------------- call_function_raw: the tail
\* read_message_from_fat_pointer(ptr)
Fetch ==
    /\ pc = "fetch"
    /\ InBounds(heap, ptr)
    /\ result' = ReadMessage(heap, ptr)
    /\ stale' = (stale \/ Released(heap, ptr))
    /\ pc' = "drain_lock"
    /\ UNCHANGED <<guest, builder, gen, doubleFree, locked, garbage, buffer, stubBuffer, pending,
                   heap, call, message, imp, ptr, outcome, frees, staged,
                   carried, ncalls, nimports>>

\* read_message_from_fat_pointer: the slice index is out of range
FetchOutOfBounds ==
    /\ pc = "fetch"
    /\ ~InBounds(heap, ptr)
    /\ Panicked
    /\ UNCHANGED <<guest, builder, gen, doubleFree, locked, garbage, buffer,
                   stubBuffer, pending, heap, call, message, imp, ptr, result,
                   frees, staged, carried, stale, ncalls, nimports>>

\* self.garbage.lock()
DrainLock ==
    /\ pc = "drain_lock"
    /\ ~locked
    /\ locked' = TRUE
    /\ pc' = "drain"
    /\ UNCHANGED <<guest, builder, gen, doubleFree, garbage, buffer, stubBuffer, pending, heap,
                   call, message, imp, ptr, result, outcome, frees, staged,
                   carried, stale, ncalls, nimports>>

\* as Drained, but the entries are copied out and left in the log
DrainedKept(log) == log

\* what .drain(..) leaves in the log
Drained(log) == <<>>

\* as WithResult, but the result locator is never pushed
WithoutResult(g, p) == g

\* as WithResult, but the result locator is pushed whatever its length
WithResultAlways(g, p) == Append(g, p)

\* if FatPointer(ptr).len() > 0 { garbage.push(FatPointer(ptr)) }
WithResult(g, p) == IF p.len > 0 THEN Append(g, p) ELSE g

\* as Drain, but the guard lives until the end of the cleanup loop
DrainHoldingLock ==
    /\ pc = "drain"
    /\ pending' = WithResult(garbage, ptr)
    /\ garbage' = Drained(garbage)
    /\ locked' = TRUE
    /\ pc' = IF WithResult(garbage, ptr) = <<>> THEN "decode" ELSE "free"
    /\ UNCHANGED <<guest, builder, gen, doubleFree, buffer, stubBuffer, heap, call, message, imp,
                   ptr, result, outcome, frees, staged, carried, stale,
                   ncalls, nimports>>

\* .drain(..).collect(): the guard is a temporary of this statement; then
\* the push of the result locator and the is_empty test
Drain ==
    /\ pc = "drain"
    /\ pending' = WithResult(garbage, ptr)
    /\ garbage' = Drained(garbage)
    /\ locked' = FALSE
    /\ pc' = IF WithResult(garbage, ptr) = <<>> THEN "decode" ELSE "free"
    /\ UNCHANGED <<guest, builder, gen, doubleFree, buffer, stubBuffer, heap, call, message, imp,
                   ptr, result, outcome, frees, staged, carried, stale,
                   ncalls, nimports>>

\* f.call(store, fat_ptr.ptr(), fat_ptr.len()): free_message_buffer entered
FreeCall ==
    /\ pc = "free"
    /\ frees' = Append(frees, Head(pending))
    /\ pc' = "free_guest"
    /\ UNCHANGED <<guest, builder, gen, doubleFree, locked, garbage, buffer, stubBuffer, pending,
                   heap, call, message, imp, ptr, result, outcome, staged,
                   carried, stale, ncalls, nimports>>

\* free_message_buffer returned; next element of the loop
FreeReturn ==
    /\ pc = "free_guest"
    /\ heap' = FreeMessageBuffer(heap, Head(pending))
    /\ doubleFree' = (doubleFree \/ Released(heap, Head(pending)))
    /\ pending' = Tail(pending)
    /\ pc' = IF Tail(pending) = <<>> THEN "decode" ELSE "free"
    /\ UNCHANGED <<guest, builder, gen, locked, garbage, buffer, stubBuffer, call, message, imp,
                   ptr, result, outcome, frees, staged, carried, stale,
                   ncalls, nimports>>

\* free_message_buffer traps: `f.call(..)?` returns, the rest is dropped
FreeTrap ==
    /\ pc = "free_guest"
    /\ Returned(Err("RuntimeError"))
    /\ UNCHANGED <<guest, builder, gen, doubleFree, locked, garbage, heap, call, ptr, result,
                   frees, staged, carried, stale, ncalls, nimports>>

\* as ReturnOf, but a failed decode yields the default value of the type
ReturnOrDefault(d) == [tag |-> "Ok", val |-> d.val]

\* .map_err(|_| errors::WasmPluginError::DeserializationError)
ReturnOf(d) ==
    IF d.ok THEN [tag |-> "Ok", val |-> d.val] ELSE Err("DeserializationError")

\* ReturnType::deserialize(&buff) in call_function(_with_argument)
Decode ==
    /\ pc = "decode"
    /\ Returned(ReturnOf(Deserialize(call.ret, result)))
    /\ UNCHANGED <<guest, builder, gen, doubleFree, locked, garbage, heap, call, ptr, result,
                   frees, staged, carried, stale, ncalls, nimports>>

\* ---------------------------------------------------------- specification
Next ==
    \/ \E name \in Imports : ImportFunction(name)
    \/ Finish
    \/ \E f \in FnNames, rt \in ReturnTypes : CallFunction(f, rt)
    \/ \E f \in FnNames, v \in HostValues, rt \in ReturnTypes :
          CallFunctionWithArgument(f, v, rt)
    \/ \E a \in Addrs \cup {Dangling} : ArgAllocReturn(a)
    \/ ArgAllocTrap
    \/ LookupMissing
    \/ LookupMismatch
    \/ InvokeStub
    \/ \E i \in Imports, v \in ImportArgs, a \in Addrs \cup {Dangling} :
          GuestCallImport(i, v, a)
    \/ GuestReadImportResult
    \/ GuestTrap
    \/ \E v \in GuestValues \cup EchoValues \cup ImportResults,
          a \in Addrs \cup {Dangling} :
          GuestReturn(v, a)
    \/ \E fp \in OutOfBounds : GuestReturnRaw(fp)
    \/ ImportDecodeFail
    \/ ImportEncodeFail
    \/ ImportHandler
    \/ \E a \in Addrs \cup {Dangling} : ImportAllocReturn(a)
    \/ ImportAllocTrap
    \/ ImportLock
    \/ ImportExtend
    \/ Fetch
    \/ FetchOutOfBounds
    \/ DrainLock
    \/ Drain
    \/ FreeCall
    \/ FreeReturn
    \/ FreeTrap
    \/ Decode

Spec == Init /\ [][Next]_vars

\* ------------------------------------------------------- guest_derive
\* A signature is the sequence of its (identifier, type) arguments.  The
\* macros build token streams: `message` (import adapter: the expression
\* that is encoded), `call` (export adapter: the arguments of the call, -1
\* for the whole `message`, k for `message.k`) and `argument_types`;
\* `tupled` says the stream was wrapped in parentheses after the loop.
Idents == {"a", "b", "c", "d"}

ArgTypes == {"u8", "bool"}

Params == [ident : Idents, ty : ArgTypes]

\* argument lists rustc accepts: no identifier is bound twice
Signatures ==
    UNION {{sig \in [1..n -> Params] :
              \A i, j \in 1..n : i # j => sig[i].ident # sig[j].ident} :
           n \in 0..MaxArgs}

plugin ==
    <<pc, locked, garbage, buffer, stubBuffer, pending, heap, call, message,
      imp, ptr, result, outcome, frees, staged, carried, stale, doubleFree,
      ncalls, nimports, guest, builder>>

InitGen ==
    /\ pc = "expand"
    /\ builder = NewBuilder([allocate_message_buffer |-> TRUE, memory |-> TRUE,
                           start |-> ""])
    /\ heap = [a \in Addrs |-> NoAlloc]
    /\ NoCalls
    /\ \E m \in {"import", "export"}, sig \in Signatures :
          gen = [NoGen EXCEPT !.macro = m, !.inputs = sig]

\* as Appended, but the stream built so far is not spliced in
Replaced(tokens, t) == <<t>>

\* quote!(#tokens #t,)
Appended(tokens, t) == Append(tokens, t)

\* impl_import_functions, f.inputs.is_empty(): nothing is encoded
ImportEmpty ==
    /\ gen.macro = "import"
    /\ ~gen.done
    /\ Len(gen.inputs) = 0
    /\ gen' = [gen EXCEPT !.done = TRUE]
    /\ UNCHANGED plugin

\* impl_import_functions, one argument: message = quote!(#i)
ImportSingle ==
    /\ gen.macro = "import"
    /\ ~gen.done
    /\ Len(gen.inputs) = 1
    /\ gen' = [gen EXCEPT !.message = <<gen.inputs[1].ident>>, !.pos = 1,
                          !.done = TRUE]
    /\ UNCHANGED plugin

\* impl_import_functions, one iteration of `for item in &f.inputs`:
\* message = quote!(#i,)
ImportLoop ==
    /\ gen.macro = "import"
    /\ ~gen.done
    /\ Len(gen.inputs) > 1
    /\ gen.pos < Len(gen.inputs)
    /\ gen' = [gen EXCEPT !.message = <<gen.inputs[gen.pos + 1].ident>>,
                          !.pos = @ + 1]
    /\ UNCHANGED plugin

\* impl_import_functions after the loop: message = quote!((#message))
ImportTuple ==
    /\ gen.macro = "import"
    /\ ~gen.done
    /\ Len(gen.inputs) > 1
    /\ gen.pos = Len(gen.inputs)
    /\ gen' = [gen EXCEPT !.tupled = TRUE, !.done = TRUE]
    /\ UNCHANGED plugin

\* impl_function_export, ast.sig.inputs.is_empty(): #name() is called
ExportEmpty ==
    /\ gen.macro = "export"
    /\ ~gen.done
    /\ Len(gen.inputs) = 0
    /\ gen' = [gen EXCEPT !.done = TRUE]
    /\ UNCHANGED plugin

\* impl_function_export, one argument: argument_types = quote!(#ty),
\* call = quote!(message)
ExportSingle ==
    /\ gen.macro = "export"
    /\ ~gen.done
    /\ Len(gen.inputs) = 1
    /\ gen' = [gen EXCEPT !.argument_types = <<gen.inputs[1].ty>>,
                          !.call = <<-1>>, !.pos = 1, !.done = TRUE]
    /\ UNCHANGED plugin

\* impl_function_export, one iteration of the enumerate() loop:
\* call = quote!(#call message.#i,) and
\* argument_types = quote!(#argument_types #ty,)
ExportLoop ==
    /\ gen.macro = "export"
    /\ ~gen.done
    /\ Len(gen.inputs) > 1
    /\ gen.pos < Len(gen.inputs)
    /\ gen' = [gen EXCEPT
                 !.call = Appended(@, gen.pos),
                 !.argument_types = Appended(@, gen.inputs[gen.pos + 1].ty),
                 !.pos = @ + 1]
    /\ UNCHANGED plugin

\* impl_function_export after the loop:
\* argument_types = quote! { (#argument_types) }
ExportTuple ==
    /\ gen.macro = "export"
    /\ ~gen.done
    /\ Len(gen.inputs) > 1
    /\ gen.pos = Len(gen.inputs)
    /\ gen' = [gen EXCEPT !.tupled = TRUE, !.done = TRUE]
    /\ UNCHANGED plugin

NextGen ==
    \/ ImportEmpty
    \/ ImportSingle
    \/ ImportLoop
    \/ ImportTuple
    \/ ExportEmpty
    \/ ExportSingle
    \/ ExportLoop
    \/ ExportTuple

SpecGen == InitGen /\ [][NextGen]_vars

\* --------------------------------------------- the forwarding export
\* Scenario: the module's `echo` export passes its argument to the import
\* `capitalize` and returns what the import returned.  The plugin was built
\* with every import registered; its heap has room for the four buffers
\* that are live at the same time.
FinishedBuilder ==
    [module  |-> [allocate_message_buffer |-> TRUE, memory |-> TRUE,
                  start |-> ""],
     env     |-> {"abort", "__getrandom"} \cup Imports,
     updated |-> TRUE]

InitForward ==
    /\ pc = "idle"
    /\ builder = FinishedBuilder
    /\ gen = NoGen
    /\ heap = [a \in ForwardAddrs |-> NoAlloc]
    /\ NoCalls

NextForward ==
    \/ \E v \in ImportArgs : CallFunctionWithArgument("echo", v, "u8")
    \/ \E a \in ForwardAddrs : ArgAllocReturn(a)
    \/ InvokeStub
    \/ \E v \in ImportArgs, a \in ForwardAddrs : GuestCallImport("capitalize", v, a)
    \/ ImportHandler
    \/ \E a \in ForwardAddrs : ImportAllocReturn(a)
    \/ ImportLock
    \/ ImportExtend
    \/ GuestReadImportResult
    \/ GuestTrap
    \/ \E v \in ImportResults, a \in ForwardAddrs : GuestReturn(v, a)
    \/ Fetch
    \/ DrainLock
    \/ Drain
    \/ FreeCall
    \/ FreeReturn
    \/ FreeTrap
    \/ Decode

SpecForward == InitForward /\ [][NextForward]_vars

\* ------------------------------------------------------------ the codec
\* bincode's wire format for the shapes a message may have.  A shape is
\* [k, of, names]: `of` holds the element type of a vec and the member
\* types of a tuple or struct, `names` the field names of a struct.
MaxLen == 2

Prim(k) == [k |-> k, of |-> <<>>, names |-> <<>>]
VecOf(t) == [k |-> "vec", of |-> <<t>>, names |-> <<>>]
TupleOf(ts) == [k |-> "tuple", of |-> ts, names |-> <<>>]
StructOf(ns, ts) == [k |-> "struct", of |-> ts, names |-> ns]

\* the types messages have in this development
Shapes ==
    {Prim("u8"), Prim("u16"), Prim("bool"), Prim("str"),
     VecOf(Prim("u16")),
     TupleOf(<<Prim("u8"), Prim("str")>>),
     StructOf(<<"id", "tags">>, <<Prim("u16"), VecOf(Prim("u8"))>>)}

\* sequences of at most n members of S
SeqsUpTo(S, n) == UNION {[1..l -> S] : l \in 0..n}

RECURSIVE ValuesOf(_)
RECURSIVE Product(_)
\* tuples whose i-th member is a value of ts[i]
Product(ts) ==
    IF ts = <<>> THEN {<<>>}
    ELSE {<<h>> \o t : h \in ValuesOf(Head(ts)), t \in Product(Tail(ts))}

\* values of a shape, with strings and sequences of at most MaxLen members
ValuesOf(t) ==
    CASE t.k = "u8"     -> {0, 255}
      [] t.k = "u16"    -> {0, 258, 65535}
      [] t.k = "bool"   -> BOOLEAN
      [] t.k = "str"    -> SeqsUpTo({97, 98}, MaxLen)
      [] t.k = "vec"    -> SeqsUpTo(ValuesOf(t.of[1]), MaxLen)
      [] t.k = "tuple"  -> Product(t.of)
      [] t.k = "struct" ->
           {[n \in {t.names[i] : i \in 1..Len(t.names)} |->
               p[CHOOSE i \in 1..Len(t.names) : t.names[i] = n]] :
            p \in Product(t.of)}

\* a value together with its static type
Typed(t, v) == [ty |-> t, v |-> v]

RECURSIVE BigEndian(_, _)
\* as LittleEndian, most significant byte first
BigEndian(n, width) ==
    IF width = 0 THEN <<>>
    ELSE Append(BigEndian(n \div 256, width - 1), n % 256)

RECURSIVE LittleEndian(_, _)
\* fixed-width integer encoding: `width` bytes, least significant first
LittleEndian(n, width) ==
    IF width = 0 THEN <<>>
    ELSE <<n % 256>> \o LittleEndian(n \div 256, width - 1)

RECURSIVE FromLittleEndian(_)
FromLittleEndian(bytes) ==
    IF bytes = <<>> THEN 0
    ELSE Head(bytes) + 256 * FromLittleEndian(Tail(bytes))

RECURSIVE BincodeSerialize(_, _)
RECURSIVE SerializeEach(_, _, _)
\* the members v[at[i]] of a compound, each encoded as ts[i], in order
SerializeEach(ts, at, v) ==
    IF ts = <<>> THEN <<>>
    ELSE BincodeSerialize(Head(ts), v[Head(at)])
            \o SerializeEach(Tail(ts), Tail(at), v)

\* bincode::serialize: integers are fixed width; a string or sequence is
\* its length as a u64 followed by its members; a tuple or struct is its
\* members in declaration order, with no names and no separators
BincodeSerialize(t, v) ==
    CASE t.k = "u8"     -> <<v>>
      [] t.k = "u16"    -> LittleEndian(v, 2)
      [] t.k = "bool"   -> <<IF v THEN 1 ELSE 0>>
      [] t.k = "str"    -> LittleEndian(Len(v), 8) \o v
      [] t.k = "vec"    ->
           LittleEndian(Len(v), 8)
              \o SerializeEach([i \in 1..Len(v) |-> t.of[1]],
                               [i \in 1..Len(v) |-> i], v)
      [] t.k = "tuple"  ->
           SerializeEach(t.of, [i \in 1..Len(t.of) |-> i], v)
      [] t.k = "struct" -> SerializeEach(t.of, t.names, v)

\* what a decoder returns: the value and the input left after it
Decoded(v, rest) == [ok |-> TRUE, val |-> v, rest |-> rest]
Eof == [ok |-> FALSE, val |-> 0, rest |-> <<>>]

\* a u64 length prefix.  A length of 2^16 or more is longer than any
\* message here, so reading that many members ends at the end of input
ReadLength(data) ==
    IF Len(data) < 8 THEN Eof
    ELSE IF \E i \in 3..8 : data[i] # 0 THEN Eof
    ELSE Decoded(FromLittleEndian(SubSeq(data, 1, 2)),
                 SubSeq(data, 9, Len(data)))

RECURSIVE DeserializePart(_, _)
RECURSIVE DeserializeEach(_, _)
\* the members of a compound decoded one after the other
DeserializeEach(ts, data) ==
    IF ts = <<>> THEN Decoded(<<>>, data)
    ELSE LET h == DeserializePart(Head(ts), data)
         IN  IF ~h.ok THEN Eof
             ELSE LET t == DeserializeEach(Tail(ts), h.rest)
                  IN  IF ~t.ok THEN Eof
                      ELSE Decoded(<<h.val>> \o t.val, t.rest)

\* bincode's Deserializer driven by the type: reads what the type needs
\* from the front of the input
DeserializePart(t, data) ==
    CASE t.k = "u8"     ->
           IF Len(data) < 1 THEN Eof ELSE Decoded(data[1], Tail(data))
      [] t.k = "u16"    ->
           IF Len(data) < 2 THEN Eof
           ELSE Decoded(FromLittleEndian(SubSeq(data, 1, 2)),
                        SubSeq(data, 3, Len(data)))
      [] t.k = "bool"   ->
           IF Len(data) < 1 \/ data[1] \notin {0, 1} THEN Eof
           ELSE Decoded(data[1] = 1, Tail(data))
      [] t.k = "str"    ->
           LET n == ReadLength(data)
           IN  IF ~n.ok \/ Len(n.rest) < n.val THEN Eof
               ELSE IF \E i \in 1..n.val : n.rest[i] > 127 THEN Eof
               ELSE Decoded(SubSeq(n.rest, 1, n.val),
                            SubSeq(n.rest, n.val + 1, Len(n.rest)))
      [] t.k = "vec"    ->
           LET n == ReadLength(data)
           IN  IF ~n.ok \/ Len(n.rest) < n.val THEN Eof
               ELSE DeserializeEach([i \in 1..n.val |-> t.of[1]], n.rest)
      [] t.k = "tuple"  -> DeserializeEach(t.of, data)
      [] t.k = "struct" ->
           LET m == DeserializeEach(t.of, data)
           IN  IF ~m.ok THEN Eof
               ELSE Decoded([n \in {t.names[i] : i \in 1..Len(t.names)} |->
                               m.val[CHOOSE i \in 1..Len(t.names) :
                                        t.names[i] = n]],
                            m.rest)

\* bincode::deserialize: the value at the front of the input; trailing
\* bytes are allowed
BincodeDeserialize(t, data) ==
    LET d == DeserializePart(t, data) IN [ok |-> d.ok, val |-> d.val]

\* Scenario: a value is encoded on one side of the boundary and the bytes
\* are decoded on the other side at the same type.
InitCodec ==
    /\ pc = "codec"
    /\ builder = FinishedBuilder
    /\ gen = NoGen
    /\ heap = [a \in Addrs |-> NoAlloc]
    /\ NoCalls

\* host Serializable::serialize of the argument of a top-level call
HostSerialize(t, v) ==
    /\ pc = "codec"
    /\ pc' = "host_serialized"
    /\ call' = [NoCall EXCEPT !.hasInput = TRUE, !.args = Typed(t, v)]
    /\ message' = BincodeSerialize(t, v)
    /\ UNCHANGED <<locked, garbage, buffer, stubBuffer, pending, heap, imp,
                   ptr, result, outcome, frees, staged, carried, stale,
                   doubleFree, ncalls, nimports, guest, builder, gen>>

\* guest Deserializable::deserialize of the bytes read_message returned
GuestDeserialize ==
    /\ pc = "host_serialized"
    /\ pc' = "guest_deserialized"
    /\ guest' = [NoGuest EXCEPT !.bytes = message,
                                !.got = BincodeDeserialize(call.args.ty, message)]
    /\ UNCHANGED <<locked, garbage, buffer, stubBuffer, pending, heap, call,
                   message, imp, ptr, result, outcome, frees, staged,
                   carried, stale, doubleFree, ncalls, nimports, builder,
                   gen>>

\* guest Serializable::serialize of the value an exported function returned
GuestSerialize(t, v) ==
    /\ pc = "codec"
    /\ pc' = "guest_serialized"
    /\ guest' = [NoGuest EXCEPT !.ret = Typed(t, v),
                                !.bytes = BincodeSerialize(t, v)]
    /\ UNCHANGED <<locked, garbage, buffer, stubBuffer, pending, heap, call,
                   message, imp, ptr, result, outcome, frees, staged,
                   carried, stale, doubleFree, ncalls, nimports, builder,
                   gen>>

\* host Deserializable::deserialize of the bytes call_function_raw fetched
HostDeserialize ==
    /\ pc = "guest_serialized"
    /\ pc' = "host_deserialized"
    /\ result' = guest.bytes
    /\ LET d == BincodeDeserialize(guest.ret.ty, guest.bytes)
       IN  outcome' = IF d.ok THEN [tag |-> "Ok", val |-> d.val]
                      ELSE Err("DeserializationError")
    /\ UNCHANGED <<locked, garbage, buffer, stubBuffer, pending, heap, call,
                   message, imp, ptr, frees, staged, carried, stale,
                   doubleFree, ncalls, nimports, guest, builder, gen>>

NextCodec ==
    \/ \E t \in Shapes : \E v \in ValuesOf(t) : HostSerialize(t, v)
    \/ GuestDeserialize
    \/ \E t \in Shapes : \E v \in ValuesOf(t) : GuestSerialize(t, v)
    \/ HostDeserialize

SpecCodec == InitCodec /\ [][NextCodec]_vars

\* ----------------------------------------------------- two plugins
\* Scenario: two plugins, each built by its own WasmPluginBuilder and each
\* called from its own thread.  Here pc, builder, garbage, heap, stubBuffer,
\* pending, frees, ncalls and nimports hold one value per plugin, and `call`
\* names the plugin that took the last step.  A locator carries the memory
\* it was allocated in, because the two linear memories use the same
\* addresses.
Instances == {"A", "B"}

\* as FromSource, but every builder is given the same Garbage Log
FromSourceShared(i) == [garbage |-> "A"]

\* WasmPluginBuilder::from_source: `garbage` is a new Arc for each builder
FromSource(i) == [garbage |-> i]

\* Env::new(self.garbage.clone(), ..): the log an import stub appends to
EnvGarbage(i) == builder[i].garbage

\* finish: WasmPluginInner { garbage: self.garbage }: the log a call drains
PluginGarbage(i) == builder[i].garbage

Locator(i, a, len) == [ptr |-> a, len |-> len, mem |-> i]

InitIsolation ==
    /\ pc = [i \in Instances |-> "idle"]
    /\ builder = [i \in Instances |-> FromSource(i)]
    /\ garbage = [i \in Instances |-> <<>>]
    /\ heap = [i \in Instances |-> [a \in Addrs |-> NoAlloc]]
    /\ stubBuffer = [i \in Instances |-> <<>>]
    /\ pending = [i \in Instances |-> <<>>]
    /\ frees = [i \in Instances |-> <<>>]
    /\ ncalls = [i \in Instances |-> 0]
    /\ nimports = [i \in Instances |-> 0]
    /\ call = [inst |-> "none", op |-> "none"]
    /\ gen = NoGen
    /\ guest = NoGuest
    /\ locked = FALSE
    /\ buffer = <<>>
    /\ message = <<>>
    /\ imp = NoImport
    /\ ptr = ZeroFatPointer
    /\ result = NoResult
    /\ outcome = NoOutcome
    /\ staged = 0
    /\ carried = 0
    /\ stale = FALSE
    /\ doubleFree = FALSE

\* what a step of one plugin leaves alone
IsolationFrame ==
    UNCHANGED <<builder, gen, guest, locked, buffer, message, imp, ptr,
                result, outcome, staged, carried, stale, doubleFree>>

\* call_function on plugin i: the exported stub starts running
PluginCall(i) ==
    /\ pc[i] = "idle"
    /\ ncalls[i] < MaxCalls
    /\ pc' = [pc EXCEPT ![i] = "guest"]
    /\ ncalls' = [ncalls EXCEPT ![i] = @ + 1]
    /\ nimports' = [nimports EXCEPT ![i] = 0]
    /\ frees' = [frees EXCEPT ![i] = <<>>]
    /\ call' = [inst |-> i, op |-> "call"]
    /\ UNCHANGED <<garbage, heap, stubBuffer, pending>>
    /\ IsolationFrame

\* an import stub of plugin i stages its handler's result: the allocator
\* and memory of its Env are those of plugin i's instance (update_exports)
StubWrite(i, a) ==
    /\ pc[i] = "guest"
    /\ nimports[i] < MaxImportCalls
    /\ a \in AllocateMessageBuffer(heap[i], 1)
    /\ pc' = [pc EXCEPT ![i] = "stub"]
    /\ nimports' = [nimports EXCEPT ![i] = @ + 1]
    /\ heap' = [heap EXCEPT ![i] = Store(@, a, "import", <<1>>, ncalls[i])]
    /\ stubBuffer' = [stubBuffer EXCEPT ![i] = <<Locator(i, a, 1)>>]
    /\ call' = [inst |-> i, op |-> "write"]
    /\ UNCHANGED <<garbage, pending, frees, ncalls>>
    /\ IsolationFrame

\* env.garbage.lock().unwrap().extend(buffer.garbage.drain(..))
StubExtend(i) ==
    /\ pc[i] = "stub"
    /\ pc' = [pc EXCEPT ![i] = "guest"]
    /\ garbage' = [garbage EXCEPT ![EnvGarbage(i)] = @ \o stubBuffer[i]]
    /\ stubBuffer' = [stubBuffer EXCEPT ![i] = <<>>]
    /\ call' = [inst |-> i, op |-> "extend"]
    /\ UNCHANGED <<heap, pending, frees, ncalls, nimports>>
    /\ IsolationFrame

\* the exported stub of plugin i returns (a zero-length result)
StubReturn(i) ==
    /\ pc[i] = "guest"
    /\ pc' = [pc EXCEPT ![i] = "drain"]
    /\ call' = [inst |-> i, op |-> "return"]
    /\ UNCHANGED <<garbage, heap, stubBuffer, pending, frees, ncalls,
                   nimports>>
    /\ IsolationFrame

\* the exported stub of plugin i traps: `?` returns before the drain
StubTrap(i) ==
    /\ pc[i] = "guest"
    /\ pc' = [pc EXCEPT ![i] = "idle"]
    /\ call' = [inst |-> i, op |-> "trap"]
    /\ UNCHANGED <<garbage, heap, stubBuffer, pending, frees, ncalls,
                   nimports>>
    /\ IsolationFrame

\* self.garbage.lock().unwrap().drain(..).collect()
DrainLog(i) ==
    /\ pc[i] = "drain"
    /\ pc' = [pc EXCEPT ![i] = "free"]
    /\ pending' = [pending EXCEPT ![i] = garbage[PluginGarbage(i)]]
    /\ garbage' = [garbage EXCEPT ![PluginGarbage(i)] = <<>>]
    /\ call' = [inst |-> i, op |-> "drain"]
    /\ UNCHANGED <<heap, stubBuffer, frees, ncalls, nimports>>
    /\ IsolationFrame

\* one iteration of the cleanup loop: free_message_buffer of plugin i's
\* instance is handed the next drained locator
FreeOne(i) ==
    /\ pc[i] = "free"
    /\ pending[i] # <<>>
    /\ frees' = [frees EXCEPT ![i] = Append(@, Head(pending[i]))]
    /\ heap' = [heap EXCEPT ![i] = FreeMessageBuffer(@, Head(pending[i]))]
    /\ pending' = [pending EXCEPT ![i] = Tail(@)]
    /\ call' = [inst |-> i, op |-> "free"]
    /\ UNCHANGED <<pc, garbage, stubBuffer, ncalls, nimports>>
    /\ IsolationFrame

\* free_message_buffer of plugin i traps: `?` returns RuntimeError and the
\* locators not yet released are dropped
FreeFails(i) ==
    /\ pc[i] = "free"
    /\ pending[i] # <<>>
    /\ frees' = [frees EXCEPT ![i] = Append(@, Head(pending[i]))]
    /\ pending' = [pending EXCEPT ![i] = <<>>]
    /\ pc' = [pc EXCEPT ![i] = "idle"]
    /\ call' = [inst |-> i, op |-> "free_trap"]
    /\ UNCHANGED <<garbage, heap, stubBuffer, ncalls, nimports>>
    /\ IsolationFrame

\* the loop is over: call_function_raw returns
CallDone(i) ==
    /\ pc[i] = "free"
    /\ pending[i] = <<>>
    /\ pc' = [pc EXCEPT ![i] = "idle"]
    /\ call' = [inst |-> i, op |-> "done"]
    /\ UNCHANGED <<garbage, heap, stubBuffer, pending, frees, ncalls,
                   nimports>>
    /\ IsolationFrame

NextIsolation ==
    \/ \E i \in Instances : PluginCall(i)
    \/ \E i \in Instances, a \in Addrs : StubWrite(i, a)
    \/ \E i \in Instances : StubExtend(i)
    \/ \E i \in Instances : StubReturn(i)
    \/ \E i \in Instances : StubTrap(i)
    \/ \E i \in Instances : DrainLog(i)
    \/ \E i \in Instances : FreeOne(i)
    \/ \E i \in Instances : FreeFails(i)
    \/ \E i \in Instances : CallDone(i)

SpecIsolation == InitIsolation /\ [][NextIsolation]_vars

\* ------------------------------------------------------ the entropy extern
\* Scenario: guest code asks for random bytes during a top-level call.  The
\* guest's static data is the block at address 0, below the heap.
StaticAddr == 0

StaticData ==
    [live |-> TRUE, kind |-> "static",
     bytes |-> [k \in 1..MessageSize |-> 0], born |-> 0]

\* the byte getrandom::getrandom produces here
RandomBytes == {7}

\* as WriteBytes, but one more byte is written than was asked for
WriteBytesSpill(h, p, bytes) ==
    [a \in DOMAIN h |->
       [h[a] EXCEPT !.bytes =
          [k \in 1..Len(h[a].bytes) |->
             IF a + k - 1 \in p..(p + Len(bytes))
             THEN 7
             ELSE h[a].bytes[k]]]]

\* the zip loop of getrandom_shim: data[ptr + j] = buff[j] for j < len
WriteBytes(h, p, bytes) ==
    [a \in DOMAIN h |->
       [h[a] EXCEPT !.bytes =
          [k \in 1..Len(h[a].bytes) |->
             IF a + k - 1 \in p..(p + Len(bytes) - 1)
             THEN bytes[a + k - p]
             ELSE h[a].bytes[k]]]]

InitEntropy ==
    /\ pc = "idle"
    /\ builder = FinishedBuilder
    /\ gen = NoGen
    /\ heap = [a \in {StaticAddr} \cup Addrs |->
                 IF a = StaticAddr THEN StaticData ELSE NoAlloc]
    /\ NoCalls

\* getrandom_shim(ptr, len): the slice index
\* data[ptr .. ptr + len] is in bounds; buff is copied over it
GetrandomShim(p, buff) ==
    /\ pc = "stub"
    /\ nimports < MaxImportCalls
    /\ InBounds(heap, FatPointer(p, Len(buff)))
    /\ nimports' = nimports + 1
    /\ imp' = [NoImport EXCEPT !.name = "__getrandom", !.ptr = p,
                               !.len = Len(buff)]
    /\ heap' = WriteBytes(heap, p, buff)
    /\ UNCHANGED <<pc, locked, garbage, buffer, stubBuffer, pending, call,
                   message, ptr, result, outcome, frees, staged, carried,
                   stale, doubleFree, ncalls, guest, builder, gen>>

\* getrandom_shim(ptr, len): the slice index is out of range and panics
GetrandomOutOfBounds(p, len) ==
    /\ pc = "stub"
    /\ nimports < MaxImportCalls
    /\ ~InBounds(heap, FatPointer(p, len))
    /\ Panicked
    /\ UNCHANGED <<locked, garbage, buffer, stubBuffer, pending, heap, call,
                   message, imp, ptr, result, frees, staged, carried, stale,
                   doubleFree, ncalls, nimports, guest, builder, gen>>

\* buffers of getrandom::getrandom: at most two bytes
RandomBuffers == SeqsUpTo(RandomBytes, MessageSize)

NextEntropy ==
    \/ \E v \in ImportArgs : CallFunctionWithArgument("echo", v, "u8")
    \/ \E a \in Addrs : ArgAllocReturn(a)
    \/ InvokeStub
    \/ \E p \in 0..MemoryEnd, buff \in RandomBuffers : GetrandomShim(p, buff)
    \/ \E p \in 0..MemoryEnd, len \in 1..MessageSize : GetrandomOutOfBounds(p, len)
    \/ GuestTrap
    \/ \E v \in EchoValues, a \in Addrs : GuestReturn(v, a)
    \/ Fetch
    \/ DrainLock
    \/ Drain
    \/ FreeCall
    \/ FreeReturn
    \/ FreeTrap
    \/ Decode

SpecEntropy == InitEntropy /\ [][NextEntropy]_vars

\* --------------------------------------------------- the abort import
\* Scenario: guest code calls the `abort` import that from_source registers.
\* the closure |_: u32, _: u32, _: i32, _: i32| {} : nothing happens on the
\* host and control returns to the guest, which then traps (as the
\* `unreachable` AssemblyScript emits after the call does) or goes on
GuestAbort ==
    /\ pc = "stub"
    /\ guest.via = ""
    /\ guest' = [guest EXCEPT !.via = "abort"]
    /\ UNCHANGED <<pc, locked, garbage, buffer, stubBuffer, pending, heap,
                   call, message, imp, ptr, result, outcome, frees, staged,
                   carried, stale, doubleFree, ncalls, nimports, builder,
                   gen>>

InitAbort ==
    /\ pc = "idle"
    /\ builder = FinishedBuilder
    /\ gen = NoGen
    /\ heap = [a \in Addrs |-> NoAlloc]
    /\ NoCalls

NextAbort ==
    \/ \E rt \in ReturnTypes : CallFunction("hello", rt)
    \/ InvokeStub
    \/ GuestAbort
    \/ GuestTrap
    \/ \E v \in GuestValues, a \in Addrs \cup {Dangling} : GuestReturn(v, a)
    \/ Fetch
    \/ DrainLock
    \/ Drain
    \/ FreeCall
    \/ FreeReturn
    \/ FreeTrap
    \/ Decode

SpecAbort == InitAbort /\ [][NextAbort]_vars

\* ------------------------------------------------------- locator packing
\* The u64 of a FatPointer is written in radix 2^16, least significant digit
\* first: four digits for the word, two for a u32 (TLC's integers cannot hold
\* 2^32).  A bit position b lies in digit b \div 16 + 1.

\* bitfield getter `msb, lsb`: the bits lsb..msb of the word
BitRange(word, msb, lsb) ==
    SubSeq(word, lsb \div 16 + 1, (msb + 1) \div 16)

\* bitfield setter `msb, lsb`: the bits lsb..msb are replaced by the value,
\* every other bit is kept
SetBitRange(word, msb, lsb, value) ==
    [k \in 1..Len(word) |->
       IF k \in (lsb \div 16 + 1)..((msb + 1) \div 16)
       THEN value[k - lsb \div 16]
       ELSE word[k]]

\* host FatPointer: ptr, set_ptr: 31, 0; len, set_len: 63, 32
HostPtr(word) == BitRange(word, 31, 0)

HostLen(word) == BitRange(word, 63, 32)

HostSetPtr(word, v) == SetBitRange(word, 31, 0, v)

HostSetLen(word, v) == SetBitRange(word, 63, 32, v)

\* guest FatPointer: ptr, set_ptr: 31, 0; len, set_len: 63, 32
GuestPtr(word) == BitRange(word, 31, 0)

GuestLen(word) == BitRange(word, 63, 32)

GuestSetPtr(word, v) == SetBitRange(word, 31, 0, v)

\* as GuestSetLen, but the length is put in the low half of the word
GuestSetLenLow(word, v) == SetBitRange(word, 31, 0, v)

GuestSetLen(word, v) == SetBitRange(word, 63, 32, v)

\* Scenario: one side packs (a, l) the way write_message and the export
\* adapter do, the other side unpacks the word.  `call` holds the side and
\* the pair, `ptr` the word, `result` the pair that was unpacked.
InitPacking ==
    /\ pc = "pack"
    /\ builder = FinishedBuilder
    /\ gen = NoGen
    /\ heap = [a \in Addrs |-> NoAlloc]
    /\ guest = NoGuest
    /\ locked = FALSE
    /\ garbage = <<>>
    /\ buffer = <<>>
    /\ stubBuffer = <<>>
    /\ pending = <<>>
    /\ call = [side |-> "none", a |-> <<0, 0>>, l |-> <<0, 0>>]
    /\ message = <<>>
    /\ imp = NoImport
    /\ ptr = <<0, 0, 0, 0>>
    /\ result = <<>>
    /\ outcome = NoOutcome
    /\ frees = <<>>
    /\ staged = 0
    /\ carried = 0
    /\ stale = FALSE
    /\ doubleFree = FALSE
    /\ ncalls = 0
    /\ nimports = 0

\* let mut fat_ptr = FatPointer(0)
NewFatPointer(side, a, l) ==
    /\ pc = "pack"
    /\ pc' = "new"
    /\ call' = [side |-> side, a |-> a, l |-> l]
    /\ ptr' = <<0, 0, 0, 0>>
    /\ result' = result
    /\ UNCHANGED <<locked, garbage, buffer, stubBuffer, pending, heap, message,
                   imp, outcome, frees, staged, carried, stale, doubleFree,
                   ncalls, nimports, guest, builder, gen>>

\* fat_ptr.set_ptr(ptr)
SetPtr ==
    /\ pc = "new"
    /\ pc' = "ptr_set"
    /\ ptr' = IF call.side = "host" THEN HostSetPtr(ptr, call.a)
                                    ELSE GuestSetPtr(ptr, call.a)
    /\ UNCHANGED <<call, result>>
    /\ UNCHANGED <<locked, garbage, buffer, stubBuffer, pending, heap, message,
                   imp, outcome, frees, staged, carried, stale, doubleFree,
                   ncalls, nimports, guest, builder, gen>>

\* fat_ptr.set_len(len)
SetLen ==
    /\ pc = "ptr_set"
    /\ pc' = "packed"
    /\ ptr' = IF call.side = "host" THEN HostSetLen(ptr, call.l)
                                    ELSE GuestSetLen(ptr, call.l)
    /\ UNCHANGED <<call, result>>
    /\ UNCHANGED <<locked, garbage, buffer, stubBuffer, pending, heap, message,
                   imp, outcome, frees, staged, carried, stale, doubleFree,
                   ncalls, nimports, guest, builder, gen>>

\* a setter applied to a word whose fields are both set
SetAgain(field, v) ==
    /\ pc = "packed"
    /\ pc' = "repacked"
    /\ IF field = "ptr"
       THEN /\ ptr' = IF call.side = "host" THEN HostSetPtr(ptr, v)
                                            ELSE GuestSetPtr(ptr, v)
            /\ call' = [call EXCEPT !.a = v]
       ELSE /\ ptr' = IF call.side = "host" THEN HostSetLen(ptr, v)
                                            ELSE GuestSetLen(ptr, v)
            /\ call' = [call EXCEPT !.l = v]
    /\ result' = result
    /\ UNCHANGED <<locked, garbage, buffer, stubBuffer, pending, heap, message,
                   imp, outcome, frees, staged, carried, stale, doubleFree,
                   ncalls, nimports, guest, builder, gen>>

\* the word crosses the boundary; the other side takes it apart with
\* ptr() and len()
Unpack ==
    /\ pc \in {"packed", "repacked"}
    /\ pc' = "unpacked"
    /\ result' = IF call.side = "host"
                 THEN <<GuestPtr(ptr), GuestLen(ptr)>>
                 ELSE <<HostPtr(ptr), HostLen(ptr)>>
    /\ UNCHANGED <<call, ptr>>
    /\ UNCHANGED <<locked, garbage, buffer, stubBuffer, pending, heap, message,
                   imp, outcome, frees, staged, carried, stale, doubleFree,
                   ncalls, nimports, guest, builder, gen>>

\* the u32 values packed have the digits 0, 1 and 2^16 - 1
NextPacking ==
    \/ \E side \in {"host", "guest"} :
         \E a \in [1..2 -> {0, 1, 65535}], l \in [1..2 -> {0, 1, 65535}] :
           NewFatPointer(side, a, l)
    \/ SetPtr
    \/ SetLen
    \/ \E field \in {"ptr", "len"}, v \in [1..2 -> {0, 1, 65535}] :
         SetAgain(field, v)
    \/ Unpack

SpecPacking == InitPacking /\ [][NextPacking]_vars

\* ------------------------------------------------------------- properties
\* the exported stub of the top-level call is on the stack
StubInFlight ==
    pc \in {"stub", "imp_read", "imp_alloc", "imp_lock", "imp_extend", "imp_ret"}

\* guest code is the running frame
GuestExecuting == pc \in {"stub", "arg_alloc", "imp_alloc", "imp_ret", "free_guest"}

\* a top-level call that entered its exported stub has returned to the caller
CallReturned == pc = "idle" /\ call.invoked

\* ... and no guest invocation made during it trapped
NoTrap == outcome.tag \in {"Ok", "DeserializationError"}

ResultCount == IF ptr.len > 0 THEN 1 ELSE 0

InSeq(x, q) == \E k \in 1..Len(q) : q[k] = x

IsPrefix(p, q) == Len(p) <= Len(q) /\ SubSeq(q, 1, Len(p)) = p

\* a buffer of one of the given kinds, allocated during the current call, is
\* still allocated
LiveFromThisCall(kinds) ==
    \E a \in DOMAIN heap :
        heap[a].live /\ heap[a].born = ncalls /\ heap[a].kind \in kinds

C2_HostBuffersReleased ==
    (CallReturned /\ NoTrap) =>
        (~LiveFromThisCall({"arg", "import_result"}) /\ ~doubleFree)

C4_NoDrainInFlight ==
    [][/\ StubInFlight => IsPrefix(garbage, garbage')
       /\ ~IsPrefix(garbage, garbage') => (pc = "drain" /\ result # NoResult)]_vars

C4_Witness ==
    /\ pc = "free"
    /\ staged >= 1
    /\ garbage = <<>>
    /\ Len(pending) = carried + staged + ResultCount

\* C5: the Garbage Log lock is held only for the append in an import stub
\* and the drain in call_function_raw, never while guest code executes.
C5_LockNotHeldInGuest ==
    /\ locked => pc \in {"imp_extend", "drain"}
    /\ GuestExecuting => ~locked

C5_Witness ==
    /\ pc = "free_guest"
    /\ staged >= 1
    /\ ~locked

C7_NoLeak ==
    (CallReturned /\ outcome.tag = "Ok") =>
        ~LiveFromThisCall({"import_arg", "import_result", "result"})

\* C8: looking up a name the guest does not export returns an error value to
\* the caller and enters no exported stub.
C8_NotFoundIsError ==
    [][(pc = "lookup" /\ call.fn_name \notin Exports) =>
          /\ pc' = "idle"
          /\ outcome'.tag \notin {"none", "Ok", "panic"}
          /\ ~call'.invoked]_vars

\* C9: whenever a guest invocation (exported stub, allocate_message_buffer,
\* free_message_buffer) ends the top-level call, the caller gets a
\* RuntimeError result.
C9_TrapIsRuntimeError ==
    [][(GuestExecuting /\ pc' \in {"idle", "panicked"}) =>
          (pc' = "idle" /\ outcome'.tag = "RuntimeError")]_vars

StubFails ==
    /\ pc = "imp_read"
    /\ LET arg == Deserialize(ImportArgType[imp.name],
                              ReadMessage(heap, FatPointer(imp.ptr, imp.len)))
       IN \/ ImportHasArg[imp.name] /\ ~arg.ok
          \/ /\ ImportHasReturn[imp.name]
             /\ ~Serialize(Handler(imp.name, arg.val)).ok

\* C11: a failure inside an import boundary stub (the argument does not
\* decode, the handler's result does not encode) ends the top-level call
\* by returning an error to its caller: it is not swallowed and the host
\* does not panic.
C11_StubFailureIsError ==
    [][StubFails =>
          /\ pc' = "idle"
          /\ outcome'.tag \notin {"Ok", "none", "panic"}]_vars

\* ------------------------------------------------------------------- C12
\* C12: finish returns InstantiationError and produces no plugin instance
\* whenever the module declares an import that was not registered on the
\* builder (abort and __getrandom are pre-registered); when every declared
\* import is registered, finish does not fail with that error.
C12_FinishLinkError ==
    /\ [][(pc = "builder" /\ pc' # "builder") =>
            IF \E n \in DeclaredImports : n \notin builder.env
            THEN pc' = "failed" /\ outcome'.tag = "InstantiationError"
            ELSE pc' # "failed" /\ outcome'.tag # "InstantiationError"]_vars
    /\ [](pc = "failed" => ncalls = 0 /\ ~call.invoked)

\* finish failed on a builder that had some, but not all, of the declared
\* imports registered
C12_Witness ==
    /\ pc = "failed"
    /\ outcome.tag = "InstantiationError"
    /\ \E n \in DeclaredImports : n \in builder.env
    /\ \E n \in DeclaredImports : n \notin builder.env

\* ------------------------------------------------------------------- C13
\* C13: for a module that instantiates but exports no
\* allocate_message_buffer or no memory, finish returns an error to its
\* caller instead of a usable instance; it does not panic.
C13_MissingExportIsError ==
    [][(/\ pc = "builder"
        /\ pc' # "builder"
        /\ ~(builder.module.allocate_message_buffer /\ builder.module.memory))
       => (pc' = "failed" /\ outcome'.tag \notin {"Ok", "none", "panic"})]_vars

\* ------------------------------------------------------------------- C14
\* C14: fetching through a locator whose address + length exceeds the size
\* of guest memory fails: nothing is read, no partial result exists, and
\* the top-level call returns an error to its caller.
C14_OutOfBoundsIsError ==
    [][(pc = "fetch" /\ ptr.ptr + ptr.len > MemoryEnd) =>
          /\ pc' = "idle"
          /\ outcome'.tag \notin {"Ok", "none", "panic"}
          /\ result' = NoResult]_vars

\* ------------------------------------------------------------------- C15
\* C15: zero-length payloads cause no engine interaction: the guest
\* allocator is never entered for an empty message, and no zero-length
\* locator is ever passed to free_message_buffer.
C15_ZeroLengthShortCircuit ==
    /\ pc \in {"arg_alloc", "imp_alloc"} => Len(message) > 0
    /\ \A k \in 1..Len(frees) : frees[k].len > 0

\* ------------------------------------------------------------------- C16
\* an import boundary stub registered for a handler without a return value
\* is running
NoReturnStubRunning ==
    /\ pc \in {"imp_read", "imp_alloc", "imp_lock", "imp_extend", "imp_ret"}
    /\ ~ImportHasReturn[imp.name]

\* C16: an import boundary stub registered for a handler with no return
\* value never stages anything: it never enters allocate_message_buffer,
\* it appends nothing to the Garbage Log, it allocates nothing in the guest
\* and the locator it hands back is the zero locator.
C16_NoReturnNeverStages ==
    /\ [](NoReturnStubRunning =>
            /\ pc \notin {"imp_alloc", "imp_ret"}
            /\ stubBuffer = <<>>
            /\ imp.r = ZeroFatPointer)
    /\ [][NoReturnStubRunning =>
            /\ garbage' = garbage
            /\ heap' = heap
            /\ staged' = staged]_vars

\* the stub of `log` (argument, no return value) is about to extend the log
C16_Witness ==
    /\ pc = "imp_extend"
    /\ imp.name = "log"
    /\ locked

\* ------------------------------------------------------------------- C17
\* C17: the export adapter of a function that declares no return value
\* returns a zero-length locator; the host fetches no payload through it
\* and never passes it to free_message_buffer.
C17_UnitResultNotReleased ==
    guest.ret = Unit =>
        /\ ptr.len = 0
        /\ result \in {NoResult, <<>>}
        /\ ~InSeq(ptr, pending)
        /\ ~InSeq(ptr, frees)

\* a call of a function without a return value came back with nothing
\* released
C17_Witness ==
    /\ CallReturned
    /\ guest.ret = Unit
    /\ call.ret = "unit"
    /\ outcome = [tag |-> "Ok", val |-> Unit]
    /\ frees = <<>>

\* ------------------------------------------------------------------- C18
\* C18: for an imported function declared with two or more arguments, the
\* generated import adapter encodes one tuple holding every argument in
\* declaration order.
C18_ImportTupleHasAllArguments ==
    (gen.macro = "import" /\ gen.done /\ Len(gen.inputs) >= 2) =>
        /\ gen.tupled
        /\ gen.message = [k \in 1..Len(gen.inputs) |-> gen.inputs[k].ident]

\* ------------------------------------------------------------------- C19
\* C19: for an exported function declared with two or more arguments, the
\* generated export adapter decodes one tuple of the declared argument
\* types in declaration order and calls the function with tuple element i
\* as its i-th argument.
C19_ExportTupleInOrder ==
    (gen.macro = "export" /\ gen.done /\ Len(gen.inputs) >= 2) =>
        /\ gen.tupled
        /\ gen.argument_types = [k \in 1..Len(gen.inputs) |-> gen.inputs[k].ty]
        /\ gen.call = [k \in 1..Len(gen.inputs) |-> k - 1]

\* the adapter of a three-argument export with two different types
C19_Witness ==
    /\ gen.macro = "export"
    /\ gen.done
    /\ Len(gen.inputs) = 3
    /\ gen.inputs[1].ty # gen.inputs[2].ty

\* ------------------------------------------------------------------- C20
\* the exported function returned the argument it decoded
EchoedInput ==
    /\ call.hasInput
    /\ guest.ret = Deserialize(ExportArgType[call.fn_name], guest.bytes).val

\* C20 as stated: for every argument value v the bytes the exported stub
\* reads at the (address, length) it was passed are encode(v), and an
\* export that returns its input unchanged makes
\* call_function_with_argument return v.
C20_AsStated ==
    /\ (call.invoked /\ call.hasInput) =>
          guest.bytes = Serialize(call.args).bytes
    /\ (CallReturned /\ EchoedInput /\ call.ret = call.args.ty) =>
          outcome = [tag |-> "Ok", val |-> call.args]

\* C20 (amended): the bytes the exported stub reads are encode(v); when the
\* export returns its input unchanged and no free_message_buffer call of
\* the cleanup traps, call_function_with_argument returns v, and when one
\* traps it returns RuntimeError.
C20_ArgumentRoundTrip ==
    /\ (call.invoked /\ call.hasInput) =>
          guest.bytes = Serialize(call.args).bytes
    /\ (CallReturned /\ EchoedInput /\ call.ret = call.args.ty) =>
          IF NoTrap
          THEN outcome = [tag |-> "Ok", val |-> call.args]
          ELSE outcome.tag = "RuntimeError"

\* echo(2u8) returned 2u8 to the caller
C20_Witness ==
    /\ CallReturned
    /\ EchoedInput
    /\ call.args = U8(2)
    /\ outcome = [tag |-> "Ok", val |-> U8(2)]

\* ------------------------------------------------------------------- C21
\* the exported function returned a value through the generated adapter
GuestReturned == guest.ret # NoValue

\* C21 as stated: for every value r a guest export returns, the bytes the
\* host fetches through the result locator are the bytes the guest staged
\* (same length, same order) and call_function returns exactly r.
C21_AsStated ==
    /\ (GuestReturned /\ result # NoResult) =>
          result = Serialize(guest.ret).bytes
    /\ (CallReturned /\ GuestReturned /\ ~call.hasInput
          /\ call.ret = guest.ret.ty) =>
          outcome = [tag |-> "Ok", val |-> guest.ret]

\* C21 (amended): the fetched bytes are the bytes the guest staged; when no
\* free_message_buffer call of the cleanup traps, call_function (asked for
\* the type of r) returns exactly r, and when one traps it returns
\* RuntimeError.
C21_ResultRoundTrip ==
    /\ (GuestReturned /\ result # NoResult) =>
          result = Serialize(guest.ret).bytes
    /\ (CallReturned /\ GuestReturned /\ ~call.hasInput
          /\ call.ret = guest.ret.ty) =>
          IF NoTrap
          THEN outcome = [tag |-> "Ok", val |-> guest.ret]
          ELSE outcome.tag = "RuntimeError"

\* hello() returned the two-byte value 258 and the caller received it
C21_Witness ==
    /\ CallReturned
    /\ ~call.hasInput
    /\ guest.ret = U16(258)
    /\ result = <<2, 1>>
    /\ outcome = [tag |-> "Ok", val |-> U16(258)]

\* ------------------------------------------------------------------- C22
\* the export passed the argument it decoded to an import that takes an
\* argument and returns a value, and returned what the import gave it
Forwarded ==
    /\ call.hasInput
    /\ guest.via \in {i \in Imports : ImportHasArg[i] /\ ImportHasReturn[i]}
    /\ guest.passed = Deserialize(ExportArgType[call.fn_name], guest.bytes).val
    /\ guest.got # NoValue
    /\ guest.ret = guest.got

\* the handler is given exactly the value the guest passed, and the guest
\* reads exactly the value the handler returned
ImportRoundTrip ==
    /\ (pc = "imp_read" /\ ImportHasArg[imp.name]
          /\ ImportArgType[imp.name] = guest.passed.ty) =>
          Deserialize(ImportArgType[imp.name],
                      ReadMessage(heap, FatPointer(imp.ptr, imp.len)))
            = [ok |-> TRUE, val |-> guest.passed]
    /\ guest.got # NoValue => guest.got = Handler(guest.via, guest.passed)

\* C22 as stated: when a guest export forwards its argument to a
\* host-registered import and returns the import's result, the handler
\* receives exactly the value the guest passed, the guest reads exactly the
\* value the handler returned, and the top-level call returns
\* handler(argument).
C22_AsStated ==
    /\ ImportRoundTrip
    /\ (CallReturned /\ Forwarded /\ call.ret = guest.ret.ty) =>
          outcome = [tag |-> "Ok", val |-> Handler(guest.via, call.args)]

\* C22 (amended): as stated when no free_message_buffer call of the
\* cleanup traps; when one traps the top-level call returns RuntimeError.
C22_HandlerRoundTrip ==
    /\ ImportRoundTrip
    /\ (CallReturned /\ Forwarded /\ call.ret = guest.ret.ty) =>
          IF NoTrap
          THEN outcome = [tag |-> "Ok", val |-> Handler(guest.via, call.args)]
          ELSE outcome.tag = "RuntimeError"

\* echo(1u8) forwarded to capitalize came back as capitalize(1u8)
C22_Witness ==
    /\ CallReturned
    /\ Forwarded
    /\ call.args = U8(1)
    /\ outcome = [tag |-> "Ok", val |-> U8(2)]

C24_Isolated ==
    /\ [](\A i \in Instances :
            /\ \A k \in 1..Len(garbage[i]) : garbage[i][k].mem = i
            /\ \A k \in 1..Len(frees[i]) : frees[i][k].mem = i)
    /\ [][\A i \in Instances : garbage'[i] # garbage[i] => call'.inst = i]_vars

\* B's call is releasing its buffers while A's call is in progress with a
\* buffer of its own in A's Garbage Log
C24_Witness ==
    /\ pc["A"] = "guest"
    /\ Len(garbage["A"]) > 0
    /\ pc["B"] = "free"
    /\ Len(frees["B"]) > 0

\* C25: the shape of an import stub is fixed by its handler's signature: a
\* handler with an argument is always run through call_with_input and one
\* without through call_without_input, so neither unimplemented!() branch
\* is reached; and the stub hands a locator back to the guest exactly when
\* the handler's return type is not zero-sized.
C25_StubShapeFixed ==
    /\ [](imp # NoImport =>
            /\ imp.method = IF ImportHasArg[imp.name] THEN "call_with_input"
                            ELSE "call_without_input"
            /\ ~Unimplemented(imp.name, imp.method))
    /\ [][pc = "imp_extend" /\ pc' # "imp_extend" =>
            /\ (pc' = "imp_ret") <=> ImportHasReturn[imp.name]
            /\ (imp.r # ZeroFatPointer) <=> ImportHasReturn[imp.name]]_vars

\* the stub of `numbers`, a handler without argument and with a return
\* value, has returned its locator to the guest
C25_Witness ==
    /\ pc = "imp_ret"
    /\ imp.name = "numbers"
    /\ imp.method = "call_without_input"
    /\ imp.r # ZeroFatPointer

\* C26: an invocation of __getrandom with (ptr, len) changes no byte of
\* guest memory outside [ptr, ptr + len), allocates and releases nothing,
\* and leaves the Garbage Log as it was.
C26_EntropyFrame ==
    [][(imp'.name = "__getrandom" /\ nimports' # nimports) =>
         /\ garbage' = garbage
         /\ stubBuffer' = stubBuffer
         /\ frees' = frees
         /\ \A a \in DOMAIN heap :
              /\ heap'[a].live = heap[a].live
              /\ Len(heap'[a].bytes) = Len(heap[a].bytes)
              /\ \A k \in 1..Len(heap[a].bytes) :
                   a + k - 1 \notin imp'.ptr..(imp'.ptr + imp'.len - 1) =>
                      heap'[a].bytes[k] = heap[a].bytes[k]]_vars

\* one random byte has been written at address 1: the second byte of the
\* static block changed and the first did not; the argument buffer of the
\* call in progress is still allocated
C26_Witness ==
    /\ pc = "stub"
    /\ imp.name = "__getrandom"
    /\ imp.ptr = 1
    /\ imp.len = 1
    /\ heap[StaticAddr].bytes = <<0, 7>>
    /\ \E a \in Addrs : heap[a].live

\* C27: a top-level call during which guest code invoked the `abort` import
\* returns RuntimeError to its caller.
C27_AbortIsError ==
    (CallReturned /\ guest.via = "abort") => outcome.tag = "RuntimeError"

\* the allocations of h that are live
LiveAddrs(h) == {a \in DOMAIN h : h[a].live}

\* what a step that stages m and returns fp did to guest memory
StageEffect(m, fp) ==
    /\ fp.len = Len(m)
    /\ fp.ptr \in AllocateMessageBuffer(heap, Len(m))
    /\ ReadMessage(heap', fp) = m
    /\ \A b \in DOMAIN heap : b # fp.ptr => heap'[b] = heap[b]
    /\ Cardinality(LiveAddrs(heap')) =
          Cardinality(LiveAddrs(heap)) + IF Len(m) > 0 THEN 1 ELSE 0

\* C28: a host write_message of m that returns has made one allocation, of
\* Len(m) bytes; the locator it returns has the allocator's address and m's
\* length; the bytes there are m; no other allocation changed.
C28_StageFrame ==
    [][/\ (pc = "arg_alloc" /\ pc' = "lookup") =>
             StageEffect(message, call'.input)
       /\ (pc = "imp_alloc" /\ pc' = "imp_lock") =>
             StageEffect(message, imp'.r)]_vars

\* an argument was staged next to a buffer an earlier call left allocated
C28_Witness ==
    /\ pc = "lookup"
    /\ call.input.len = 1
    /\ heap[call.input.ptr].bytes = Serialize(call.args).bytes
    /\ \E b \in Addrs : b # call.input.ptr /\ heap[b].live

\* C29: a call_function_with_argument whose argument does not encode
\* returns SerializationError in the same step: no allocation is made, no
\* exported stub is invoked, and guest memory and the Garbage Log are as
\* they were.
C29_EncodeFailsFirst ==
    [][(ncalls' = ncalls + 1 /\ call'.hasInput /\ ~Serialize(call'.args).ok) =>
         /\ pc' = "idle"
         /\ outcome' = Err("SerializationError")
         /\ ~call'.invoked
         /\ heap' = heap
         /\ garbage' = garbage
         /\ buffer' = <<>>
         /\ frees' = <<>>]_vars

\* the call was refused while an earlier call's buffer was in the log
C29_Witness ==
    /\ pc = "idle"
    /\ outcome = Err("SerializationError")
    /\ call.args = Opaque
    /\ ~call.invoked
    /\ Len(garbage) > 0
    /\ LiveAddrs(heap) # {}

\* C30: the result is decoded only after the cleanup: when the decode is
\* about to run, and when a call has returned DeserializationError, the
\* Garbage Log is empty, nothing drained is waiting to be released, and
\* every locator that was in the log, and the result locator when its
\* length is not zero, has been passed to free_message_buffer.
C30_DecodeAfterCleanup ==
    (pc = "decode" \/ (pc = "idle" /\ outcome = Err("DeserializationError"))) =>
       /\ garbage = <<>>
       /\ pending = <<>>
       /\ Len(frees) = carried + staged + IF ptr.len > 0 THEN 1 ELSE 0
       /\ ptr.len > 0 => InSeq(ptr, frees)
       /\ \A k \in 1..Len(frees) : Released(heap, frees[k])

\* a call returned DeserializationError after it released the buffer an
\* import stub had staged and the buffer of the result
C30_Witness ==
    /\ pc = "idle"
    /\ outcome = Err("DeserializationError")
    /\ staged = 1
    /\ ptr.len > 0
    /\ Len(frees) = 2

\* ------------------------------------------------------------------- C31
\* the exported stub traps
StubTraps == pc = "stub" /\ pc' = "idle"

\* the locators an earlier call left in the log are the first ones the
\* cleanup of this call handed to free_message_buffer, each once, and the
\* buffers they name are released
CarriedReleased ==
    /\ Len(frees) >= carried
    /\ \A k \in 1..carried : Released(heap, frees[k])
    /\ \A j, k \in 1..carried : j # k => frees[j] # frees[k]
    /\ garbage = <<>>

Unreleased(q) ==
    /\ \A k \in 1..Len(q) : q[k].len > 0 => ~Released(heap, q[k])
    /\ \A j, k \in 1..Len(q) :
          (j # k /\ q[j].len > 0 /\ q[k].len > 0) => q[j].ptr # q[k].ptr

C33_StubAfterFinish ==
    imp.name \in Imports => builder.updated

\* ------------------------------------------------------------------- C34
\* C34: packing a locator is lossless and host and guest agree on it: the
\* word packed from (a, l) has the digits of a below the digits of l, that
\* is a + l * 2^32; both sides read a and l back from it; the other side
\* unpacks exactly (a, l); and a setter changes only its own field.
C34_PackingRoundTrip ==
    /\ [](/\ pc \in {"packed", "repacked", "unpacked"} =>
               /\ ptr = call.a \o call.l
               /\ HostPtr(ptr) = call.a /\ GuestPtr(ptr) = call.a
               /\ HostLen(ptr) = call.l /\ GuestLen(ptr) = call.l
          /\ pc = "unpacked" => result = <<call.a, call.l>>)
    /\ [][/\ pc \in {"new", "packed"} =>
               (HostPtr(ptr') = HostPtr(ptr) \/ HostLen(ptr') = HostLen(ptr))
          /\ pc = "new" => HostLen(ptr') = HostLen(ptr)
          /\ pc = "ptr_set" => HostPtr(ptr') = HostPtr(ptr)]_vars

\* the guest packed address 2^32 - 1 with length 2^16 and the host unpacked
\* the pair
C34_Witness ==
    /\ pc = "unpacked"
    /\ call.side = "guest"
    /\ ptr = <<65535, 65535, 0, 1>>
    /\ result = <<<<65535, 65535>>, <<0, 1>>>>

====
